---- MODULE Spec2Model ----
(***************************************************************************)
(* Model of library/mongodb_replica_set.py: the Ansible module that        *)
(* initiates a MongoDB replica set and adds / removes its members.         *)
(*                                                                         *)
(* Several invocations of main() (the agents) run against one cluster.     *)
(* Every command an agent sends to the cluster is one atomic step; the     *)
(* local computation that follows a command, up to the next command or to  *)
(* the end of the invocation, belongs to the same step.                    *)
(*                                                                         *)
(* Encoding of Python values:                                              *)
(*   - a host string is the sequence of its tokens, <<"b", ":", "27017">>; *)
(*     the None host is the empty sequence (no input is the empty string); *)
(*   - the None document (no configuration, no member found) is None;      *)
(*   - the replset argument is <<name>>, or <<>> for None;                 *)
(*   - result['changed'] is "true", "false" or "none" (Python None);       *)
(*     "unreported" when the invocation ended without exit_json.           *)
(***************************************************************************)
EXTENDS Integers, Sequences, FiniteSets, TLC

\* ------------------------------------------------------------- bounds
MaxCalls == 2      \* invocations of main() in one behaviour
MaxFaults == 1     \* failures the cluster may inject in one behaviour
MaxWait == 3       \* the largest timeout the waiter is called with on its own
MaxId == 2         \* the largest member _id in a function's argument
MaxMembers == 2    \* the longest member list in a function's argument
MaxVersion == 2    \* the largest version in a function's argument

Agents == {"a1", "a2"}

\* ---------------------------------------------------------- constants
DEFAULT_PORT == 27017
WAIT_TIMEOUT == 60
NOT_PRIMARY_YET == 109
NEWER_CONFIG_EXISTS == 103
\* Some failure code outside the transient set (13 is Unauthorized).
OtherCodes == {13}

None == [none |-> TRUE]
NoHost == <<>>
NoReplset == <<>>

\* What the orchestrator may pass as member= and replset=.
InputHosts == {<<"b">>, <<"b", ":", "27017">>, <<"c", ":", "30000">>}
InputReplsets == {NoReplset, <<"rs0">>}
\* The host a mongod started with --replSet names itself in a bare initiate.
SelfHost == <<"a", ":", "27017">>
SelfReplset == "rs0"

Range(s) == {s[i] : i \in DOMAIN s}

\* ------------------------------------------------------ pure functions
normalize_member_host(member_host) ==
    IF ":" \notin Range(member_host)
    THEN member_host \o <<":", ToString(DEFAULT_PORT)>>
    ELSE member_host

\* The tuning options (arbiter_only, priority, ...) keep their defaults, which
\* create_member omits from the document.
create_member(host) == [host |-> host]

\* Mutant: the member document, not its host, is compared with the host.
rs_get_member_whole(rs_config, member) ==
    LET a == SelectSeq(rs_config.members, LAMBDA x : x = [host |-> member])
    IN  IF a /= <<>> THEN a[1] ELSE None

rs_get_member(rs_config, member) ==
    LET a == SelectSeq(rs_config.members, LAMBDA x : x.host = member)
    IN  IF a /= <<>> THEN a[1] ELSE None

\* Mutant: the comparison turned around, which keeps the smallest id.
compare_min_id(max_id, current_member) ==
    IF current_member._id < max_id THEN current_member._id ELSE max_id

compare_max_id(max_id, current_member) ==
    IF current_member._id > max_id THEN current_member._id ELSE max_id

RECURSIVE reduce_max_id(_, _)
reduce_max_id(members, max_id) ==
    IF members = <<>> THEN max_id
    ELSE reduce_max_id(Tail(members), compare_max_id(max_id, Head(members)))

\* Mutant: the largest id itself, the + 1 forgotten.
rs_get_next_member_id_max(rs_config) ==
    IF rs_config = None \/ "members" \notin DOMAIN rs_config THEN 0
    ELSE reduce_max_id(rs_config.members, 0)

\* Mutant: an empty member list counts as no members.
rs_get_next_member_id_zero(rs_config) ==
    IF rs_config = None \/ "members" \notin DOMAIN rs_config THEN 0
    ELSE IF rs_config.members = <<>> THEN 0
    ELSE reduce_max_id(rs_config.members, 0) + 1

\* A document whose 'members' is None is a record without the field members.
rs_get_next_member_id(rs_config) ==
    IF rs_config = None \/ "members" \notin DOMAIN rs_config THEN 0
    ELSE reduce_max_id(rs_config.members, 0) + 1

rs_add_member(rs_config, member) ==
    [rs_config EXCEPT !.members = Append(@, member), !.version = @ + 1]

RECURSIVE delete_first(_, _)
delete_first(members, host) ==
    IF members = <<>> THEN <<>>
    ELSE IF Head(members).host = host THEN Tail(members)
    ELSE <<Head(members)>> \o delete_first(Tail(members), host)

\* Mutant: removal advances the version by two.
rs_remove_member_skips(rs_config, member) ==
    [rs_config EXCEPT !.members = delete_first(@, member.host), !.version = @ + 2]

\* Mutant: the loop matches nothing; only the version moves.
rs_remove_member_keeps(rs_config, member) ==
    [rs_config EXCEPT !.version = @ + 1]

\* Mutant: the version moves only if a member was deleted.
rs_remove_member_matched(rs_config, member) ==
    IF delete_first(rs_config.members, member.host) = rs_config.members
    THEN rs_config
    ELSE [rs_config EXCEPT !.members = delete_first(@, member.host), !.version = @ + 1]

rs_remove_member(rs_config, member) ==
    [rs_config EXCEPT !.members = delete_first(@, member.host), !.version = @ + 1]

Hosts(rs_config) == {rs_config.members[i].host : i \in DOMAIN rs_config.members}

\* ------------------------------------------------------ create_settings
\* Python values of mixed type carry their type: None, bool, int, str.
PyNone == [t |-> "none", v |-> 0]
PyBool(b) == [t |-> "bool", v |-> b]
PyInt(i) == [t |-> "int", v |-> i]
PyStr(s) == [t |-> "str", v |-> s]

\* `if x:`.
Truthy(x) ==
    CASE x.t = "none" -> FALSE
      [] x.t = "bool" -> x.v
      [] x.t = "int" -> x.v /= 0
      [] x.t = "str" -> x.v /= ""

\* The strings int() parses, with their values.
Numerals == ("0" :> 0) @@ ("1" :> 1) @@ ("2" :> 2) @@ ("3" :> 3)

\* `try: int(x) except ValueError: x`.
int_or_same(x) ==
    CASE x.t = "int" -> x
      [] x.t = "bool" -> PyInt(IF x.v THEN 1 ELSE 0)
      [] x.t = "str" -> IF x.v \in DOMAIN Numerals THEN PyInt(Numerals[x.v]) ELSE x

HEARTBEAT_DEFAULT == 10

create_settings(kwargs) ==
    LET settings ==
            [chainingAllowed |-> IF Truthy(kwargs.chainingAllowed)
                                 THEN kwargs.chainingAllowed ELSE PyBool(TRUE),
             heartbeat |-> IF Truthy(kwargs.heartbeat)
                           THEN kwargs.heartbeat ELSE PyInt(HEARTBEAT_DEFAULT)]
        w == [w |-> IF Truthy(kwargs.woption)
                    THEN int_or_same(kwargs.woption) ELSE PyInt(1)]
        \* line 254 assigns to 'w', not to 'j'
        j == IF Truthy(kwargs.joption)
             THEN w @@ [j |-> kwargs.joption]
             ELSE [w EXCEPT !.w = PyBool(FALSE)]
        getLastErrorDefaults ==
            j @@ [wtimeout |-> IF Truthy(kwargs.wtimeout)
                               THEN kwargs.wtimeout ELSE PyInt(0)]
    IN  settings @@ [getLastErrorDefaults |-> getLastErrorDefaults]

\* What create_settings may be called with.
SettingsInputs ==
    [chainingAllowed : {PyNone, PyBool(TRUE), PyBool(FALSE)},
     heartbeat : {PyNone, PyInt(0), PyInt(5)},
     woption : {PyNone, PyInt(0), PyInt(2), PyStr("2"), PyStr("majority")},
     joption : {PyNone, PyBool(TRUE), PyBool(FALSE)},
     wtimeout : {PyNone, PyInt(0), PyInt(100)}]

\* ---------------------------------------------------------------- state
VARIABLES
    rs,          \* the cluster's configuration document (local.system.replset), or None
    faults,      \* failures the cluster has injected so far
    calls,       \* invocations of main() started so far
    pc,          \* where each agent's invocation stands
    state,       \* module.params['state']
    member,      \* the member dict built by create_member (rs_alter sets its _id)
    replset,     \* module.params['replset']
    tries,       \* rs_alter's attempt counter
    rs_config,   \* the configuration the agent is about to send
    timeout,     \* rs_wait_for_ok_and_primary's remaining timeout
    result,      \* how the invocation ended
    delay,       \* seconds the agent sleeps before its next attempt
    seen,        \* history: the configuration read by the current attempt
    reply,       \* history: the cluster's answer to the agent's last command
    polled,      \* history: the last replSetGetStatus answer
    prev,        \* history: how the agent's previous invocation ended, if this
                 \* one repeats its state and host
    assigned,    \* history: every <<_id, host>> the cluster's configuration ever held
    waited,      \* history: the timeout the waiter was called with, and its polls
    call         \* a function called on its own: its name, arguments and return value

vars == <<rs, faults, calls, pc, state, member, replset, tries, rs_config, timeout,
          result, delay, seen, reply, polled, prev, assigned, waited, call>>

Running == [exit |-> "", changed |-> "unreported", error |-> "", detail |-> 0]
NoReply == [op |-> "", kind |-> "", code |-> 0, applied |-> FALSE]
NoStatus == [ok |-> 0, myState |-> 0]
NoPrev == [result |-> Running, reply |-> NoReply]
NoWait == [timeout |-> 0, polls |-> 0]
NoCall == [fn |-> "", args |-> <<>>, ret |-> None, returned |-> FALSE]

Pairs(cfg) == {<<cfg.members[i]._id, cfg.members[i].host>> : i \in DOMAIN cfg.members}

\* Mutant: the document is stamped with a version, and its member's _id is 1.
InitiateConfig_versioned(name, m) ==
    [_id |-> name, version |-> 1, members |-> <<[host |-> m.host, _id |-> 1]>>]

\* The configuration main() builds for replSetInitiate (it carries no version).
InitiateConfig(name, m) ==
    [_id |-> name, members |-> <<[host |-> m.host, _id |-> 0]>>]

\* What the cluster holds after replSetInitiate: the given document, or its own
\* single-member one, at version 1.
Initiated(cfg) ==
    IF cfg = None
    THEN [_id |-> SelfReplset, version |-> 1,
          members |-> <<[host |-> SelfHost, _id |-> 0]>>]
    ELSE [_id |-> cfg._id, version |-> 1, members |-> cfg.members]

\* The cluster before the first invocation: not initiated, just initiated, or
\* initiated and grown by one member (what initiate and one `present` leave).
InitialConfigs ==
    {None, Initiated(None),
     rs_add_member(Initiated(None), [host |-> <<"b", ":", "27017">>, _id |-> 1])}

Init ==
    /\ rs \in InitialConfigs
    /\ faults = 0
    /\ calls = 0
    /\ pc = [a \in Agents |-> "idle"]
    /\ state = [a \in Agents |-> ""]
    /\ member = [a \in Agents |-> create_member(NoHost)]
    /\ replset = [a \in Agents |-> NoReplset]
    /\ tries = [a \in Agents |-> 0]
    /\ rs_config = [a \in Agents |-> None]
    /\ timeout = [a \in Agents |-> 0]
    /\ result = [a \in Agents |-> Running]
    /\ delay = [a \in Agents |-> 0]
    /\ seen = [a \in Agents |-> None]
    /\ reply = [a \in Agents |-> NoReply]
    /\ polled = [a \in Agents |-> NoStatus]
    /\ prev = [a \in Agents |-> NoPrev]
    /\ assigned = IF rs = None THEN {} ELSE Pairs(rs)
    /\ waited = [a \in Agents |-> NoWait]
    /\ call = NoCall

\* ---------------------------------------------------- the cluster's side
Ok == [op |-> "", kind |-> "ok", code |-> 0, applied |-> TRUE]
Failure(code) == [op |-> "", kind |-> "OperationFailure", code |-> code, applied |-> FALSE]
\* The connection drops during a command; the command was applied or it was not.
Reconnect(applied) == [op |-> "", kind |-> "AutoReconnect", code |-> 0, applied |-> applied]

TransientFaults == {Failure(NEWER_CONFIG_EXISTS), Failure(NOT_PRIMARY_YET)}
AllFaults == TransientFaults \cup {Failure(c) : c \in OtherCodes}
                 \cup {Reconnect(TRUE), Reconnect(FALSE)}

\* replSetReconfig is accepted only with a version above the cluster's own, and
\* only if every member names a host.
ClusterAccepts(cfg) == NoHost \notin Hosts(cfg) /\ cfg.version > rs.version

ClusterReconfig(cfg) ==
    IF NoHost \in Hosts(cfg) THEN Failure(CHOOSE c \in OtherCodes : TRUE)
    ELSE IF ClusterAccepts(cfg) THEN Ok
    ELSE Failure(NEWER_CONFIG_EXISTS)

\* ------------------------------------------------- how a step may end
\* rs_alter returns value: main stores it in result['changed'] and calls exit_json.
Return(a, value) ==
    /\ pc' = [pc EXCEPT ![a] = "done"]
    /\ result' = [result EXCEPT ![a] =
                    [exit |-> "exit_json", changed |-> value, error |-> "", detail |-> 0]]
    /\ delay' = [delay EXCEPT ![a] = 0]
    /\ UNCHANGED <<rs_config, tries>>

\* An exception nothing catches ends the invocation; no result is reported.
Crash(a, exc, detail) ==
    /\ pc' = [pc EXCEPT ![a] = "done"]
    /\ result' = [result EXCEPT ![a] =
                    [exit |-> "exception", changed |-> "unreported",
                     error |-> exc, detail |-> detail]]
    /\ delay' = [delay EXCEPT ![a] = 0]
    /\ UNCHANGED <<rs_config, tries>>

Submit(a, cfg) ==
    /\ pc' = [pc EXCEPT ![a] = "rs_reconfigure"]
    /\ rs_config' = [rs_config EXCEPT ![a] = cfg]
    /\ delay' = [delay EXCEPT ![a] = 0]
    /\ UNCHANGED <<result, tries>>

\* Mutant: only 103 is retried.
Retryable_103(code) == code = NEWER_CONFIG_EXISTS

Retryable(code) == code = NOT_PRIMARY_YET \/ code = NEWER_CONFIG_EXISTS

\* time.sleep(random.randint(2, 8)) for 109, no sleep for 103.
BackoffDelay(code) == IF code = NOT_PRIMARY_YET THEN 2..8 ELSE {0}

\* `raise OperationError(error)`: the name OperationError is defined neither in
\* the module nor by `from ansible.module_utils.basic import *`, so evaluating
\* the statement raises NameError, which carries nothing of `error`.
RaiseOperationError(a, code) == Crash(a, "NameError", 0)

\* A retry is a call of rs_alter from within rs_alter (line 366), so attempt
\* number n runs n calls deep. CPython refuses a call deeper than
\* sys.getrecursionlimit(), 1000 unless changed, which the module never does,
\* and raises RuntimeError; the frames below and above rs_alter make the real
\* depth somewhat smaller.
RecursionLimit == 1000

\* The `except OperationFailure` clause of rs_alter.
OnOperationFailure(a, code) ==
    IF Retryable(code)
    THEN IF tries[a] + 1 < RecursionLimit
         THEN /\ \E d \in BackoffDelay(code) : delay' = [delay EXCEPT ![a] = d]
              /\ tries' = [tries EXCEPT ![a] = @ + 1]
              /\ pc' = [pc EXCEPT ![a] = "rs_alter"]
              /\ UNCHANGED <<result, rs_config>>
         ELSE Crash(a, "RuntimeError", 0)
    ELSE RaiseOperationError(a, code)

\* Mutant: no try/except around the command.
rs_reconfigure_bare(r) == IF r.kind = "ok" THEN "" ELSE r.kind

\* What leaves rs_reconfigure: "" when it returns, else the exception's class.
rs_reconfigure(r) ==
    IF r.kind = "AutoReconnect" THEN ""
    ELSE IF r.kind = "ok" THEN ""
    ELSE r.kind

\* ------------------------------------------------------------ rs_alter
\* main() from its start to the first command: the parameters are read, the
\* host normalized, the member dict built (lines 390-411).
Begin(a, st, h, name, first) ==
    LET member_host == IF h /= NoHost THEN normalize_member_host(h) ELSE h
    IN  /\ pc[a] \in {"idle", "done"}
        /\ calls < MaxCalls
        /\ calls' = calls + 1
        /\ state' = [state EXCEPT ![a] = st]
        /\ member' = [member EXCEPT ![a] = create_member(member_host)]
        /\ replset' = [replset EXCEPT ![a] = name]
        /\ pc' = [pc EXCEPT ![a] = first]
        /\ tries' = [tries EXCEPT ![a] = 0]
        /\ delay' = [delay EXCEPT ![a] = 0]
        /\ timeout' = [timeout EXCEPT ![a] = 0]
        /\ result' = [result EXCEPT ![a] = Running]
        /\ rs_config' = [rs_config EXCEPT ![a] = None]
        /\ seen' = [seen EXCEPT ![a] = None]
        /\ reply' = [reply EXCEPT ![a] = NoReply]
        /\ polled' = [polled EXCEPT ![a] = NoStatus]
        /\ waited' = [waited EXCEPT ![a] = NoWait]
        /\ prev' = [prev EXCEPT ![a] =
                      IF pc[a] = "done" /\ state[a] = st /\ member[a].host = member_host
                      THEN [result |-> result[a], reply |-> reply[a]]
                      ELSE NoPrev]
        /\ UNCHANGED <<rs, faults, assigned, call>>

\* main() with state in {present, absent, reconf}: it calls rs_alter(..., 0).
\* replset, which this path never uses, is left at its default.
StartAlter(a) ==
    \E st \in {"present", "absent", "reconf"}, h \in InputHosts \cup {NoHost} :
        Begin(a, st, h, NoReplset, "rs_alter")

\* Mutant: a state that is neither present nor absent returns False.
Decide_else_false(a, cfg, m) ==
    IF state[a] = "present"
    THEN IF cfg = None THEN Crash(a, "TypeError", 0)
         ELSE IF rs_get_member(cfg, m.host) = None
              THEN Submit(a, rs_add_member(cfg, m))
              ELSE Return(a, "false")
    ELSE IF state[a] = "absent"
    THEN IF cfg = None THEN Crash(a, "TypeError", 0)
         ELSE IF rs_get_member(cfg, m.host) /= None
              THEN Submit(a, rs_remove_member(cfg, m))
              ELSE Return(a, "false")
    ELSE Return(a, "false")

\* The body of rs_alter after the read: decide, and mutate the document read.
Decide(a, cfg, m) ==
    IF state[a] = "present"
    THEN IF cfg = None THEN Crash(a, "TypeError", 0)
         ELSE IF rs_get_member(cfg, m.host) = None
              THEN Submit(a, rs_add_member(cfg, m))
              ELSE Return(a, "false")
    ELSE IF state[a] = "absent"
    THEN IF cfg = None THEN Crash(a, "TypeError", 0)
         ELSE IF rs_get_member(cfg, m.host) /= None
              THEN Submit(a, rs_remove_member(cfg, m))
              ELSE Return(a, "false")
    ELSE Return(a, "none")

\* Mutant: a retry works on the document its earlier attempt read.
rs_get_config_kept(a) == IF seen[a] /= None THEN seen[a] ELSE rs

\* find_one on local.system.replset: the cluster's document as it is now.
rs_get_config(a) == rs

\* One attempt of rs_alter up to its replSetReconfig: rs_get_config, the next
\* member id, the decision. fs: the failures the cluster may inject.
GetConfig(a, fs) ==
    /\ pc[a] = "rs_alter"
    /\ \/ /\ LET cfg == rs_get_config(a)
                  m == [host |-> member[a].host, _id |-> rs_get_next_member_id(cfg)]
              IN  /\ member' = [member EXCEPT ![a] = m]
                  /\ seen' = [seen EXCEPT ![a] = cfg]
                  /\ reply' = [reply EXCEPT ![a] = NoReply]
                  /\ Decide(a, cfg, m)
          /\ UNCHANGED faults
       \/ /\ faults < MaxFaults
          /\ \E f \in {g \in fs : ~g.applied} :
                /\ reply' = [reply EXCEPT ![a] = [f EXCEPT !.op = "find_one"]]
                /\ IF f.kind = "OperationFailure"
                   THEN OnOperationFailure(a, f.code)
                   ELSE Crash(a, f.kind, 0)
          /\ faults' = faults + 1
          /\ seen' = [seen EXCEPT ![a] = None]
          /\ UNCHANGED member
    /\ UNCHANGED <<rs, calls, state, replset, timeout, polled, prev, assigned, waited,
                   call>>

\* Mutant: rs_alter returns False after a submission that went through.
Receive_false(a, r) ==
    /\ reply' = [reply EXCEPT ![a] = [r EXCEPT !.op = "replSetReconfig"]]
    /\ rs' = IF r.applied THEN rs_config[a] ELSE rs
    /\ assigned' = IF r.applied THEN assigned \cup Pairs(rs_config[a]) ELSE assigned
    /\ LET exc == rs_reconfigure(r)
       IN  IF exc = "" THEN Return(a, "false")
           ELSE IF exc = "OperationFailure" THEN OnOperationFailure(a, r.code)
           ELSE Crash(a, exc, 0)

\* The cluster's answer r to replSetReconfig reaches rs_reconfigure and rs_alter.
Receive(a, r) ==
    /\ reply' = [reply EXCEPT ![a] = [r EXCEPT !.op = "replSetReconfig"]]
    /\ rs' = IF r.applied THEN rs_config[a] ELSE rs
    /\ assigned' = IF r.applied THEN assigned \cup Pairs(rs_config[a]) ELSE assigned
    /\ LET exc == rs_reconfigure(r)
       IN  IF exc = "" THEN Return(a, "true")
           ELSE IF exc = "OperationFailure" THEN OnOperationFailure(a, r.code)
           ELSE Crash(a, exc, 0)

\* rs_reconfigure(client, rs_config) and what rs_alter does with its outcome.
Reconfigure(a, fs) ==
    /\ pc[a] = "rs_reconfigure"
    /\ \/ /\ Receive(a, ClusterReconfig(rs_config[a]))
          /\ UNCHANGED faults
       \/ /\ faults < MaxFaults
          /\ \E f \in fs :
                /\ f.applied => ClusterAccepts(rs_config[a])
                /\ Receive(a, f)
          /\ faults' = faults + 1
    /\ UNCHANGED <<calls, state, member, replset, timeout, seen, polled, prev, waited,
                   call>>

\* ------------------------------------------------------- state=initiated
\* main() with state = initiated, up to rs_is_master.
StartInitiated(a) ==
    \E h \in InputHosts \cup {NoHost}, name \in InputReplsets :
        Begin(a, "initiated", h, name, "rs_is_master")

\* module.fail_json(msg=...): the invocation ends with an error message.
FailJson(a, msg) ==
    /\ pc' = [pc EXCEPT ![a] = "done"]
    /\ result' = [result EXCEPT ![a] =
                    [exit |-> "fail_json", changed |-> "unreported", error |-> msg,
                     detail |-> 0]]
    /\ delay' = [delay EXCEPT ![a] = 0]
    /\ UNCHANGED <<rs_config, tries>>

\* Mutant: the test looks for a key isMaster never carries.
rs_is_master_other == IF rs = None THEN {} ELSE {"set"}

\* The keys of the isMaster answer this module looks at.
rs_is_master == IF rs = None THEN {} ELSE {"setName"}

\* main() lines 426-437: isMaster, then the document for replSetInitiate.
IsMaster(a) ==
    /\ pc[a] = "rs_is_master"
    /\ LET is_master == rs_is_master
       IN  IF "setName" \notin is_master
           THEN IF member[a].host = NoHost
                THEN /\ rs_config' = [rs_config EXCEPT ![a] = None]
                     /\ pc' = [pc EXCEPT ![a] = "rs_initiate"]
                     /\ delay' = [delay EXCEPT ![a] = 0]
                     /\ UNCHANGED <<member, result, tries>>
                ELSE IF replset[a] = NoReplset
                THEN /\ FailJson(a, "replset must be specified")
                     /\ UNCHANGED member
                ELSE LET cfg == InitiateConfig(replset[a][1], member[a])
                     IN  /\ rs_config' = [rs_config EXCEPT ![a] = cfg]
                         /\ member' = [member EXCEPT ![a] = cfg.members[1]]
                         /\ pc' = [pc EXCEPT ![a] = "rs_initiate"]
                         /\ delay' = [delay EXCEPT ![a] = 0]
                         /\ UNCHANGED <<result, tries>>
           ELSE /\ Return(a, "false")
                /\ UNCHANGED member
    /\ UNCHANGED <<rs, faults, calls, state, replset, timeout, seen, reply, polled, prev,
                   assigned, waited, call>>

\* What replSetInitiate answers: a set is initiated once.
ClusterInitiate == IF rs = None THEN Ok ELSE Failure(CHOOSE c \in OtherCodes : TRUE)

\* rs_initiate's answer r reaches main(), which catches nothing.
Initiating(a, r) ==
    /\ reply' = [reply EXCEPT ![a] = [r EXCEPT !.op = "replSetInitiate"]]
    /\ rs' = IF r.applied THEN Initiated(rs_config[a]) ELSE rs
    /\ assigned' = IF r.applied THEN assigned \cup Pairs(Initiated(rs_config[a]))
                   ELSE assigned
    /\ IF r.kind = "ok"
       THEN /\ pc' = [pc EXCEPT ![a] = "rs_wait"]
            /\ timeout' = [timeout EXCEPT ![a] = WAIT_TIMEOUT]
            /\ waited' = [waited EXCEPT ![a] = [timeout |-> WAIT_TIMEOUT, polls |-> 0]]
            /\ UNCHANGED <<result, rs_config, tries, delay>>
       ELSE /\ Crash(a, r.kind, r.code)
            /\ UNCHANGED <<timeout, waited>>

\* rs_initiate(client[, rs_config]) and main() line 439, the waiter's call.
Initiate(a, fs) ==
    /\ pc[a] = "rs_initiate"
    /\ \/ /\ Initiating(a, ClusterInitiate)
          /\ UNCHANGED faults
       \/ /\ faults < MaxFaults
          /\ \E f \in fs :
                /\ f.applied => rs = None
                /\ Initiating(a, f)
          /\ faults' = faults + 1
    /\ UNCHANGED <<calls, state, member, replset, seen, polled, prev, call>>

\* What replSetGetStatus (check=False) may answer on an initiated set.
StatusReplies ==
    {[ok |-> 1, myState |-> 1], [ok |-> 1, myState |-> 2], [ok |-> 0, myState |-> 0]}

\* Mutant: the member's own state is not looked at.
wait_is_over_ok(status) == status.ok = 1

wait_is_over(status) == status.ok = 1 /\ status.myState = 1

\* Mutant: the test comes one round late.
wait_expired_late(remaining) == remaining < 0

\* `if timeout == 0`, after the decrement.
wait_expired(remaining) == remaining = 0

\* One round of rs_wait_for_ok_and_primary's loop; on return, main() sets
\* result['changed'] = True and exits.
WaitPoll(a) ==
    /\ pc[a] = "rs_wait"
    /\ \E status \in StatusReplies :
          /\ polled' = [polled EXCEPT ![a] = status]
          /\ waited' = [waited EXCEPT ![a].polls = @ + 1]
          /\ IF wait_is_over(status)
             THEN /\ Return(a, "true")
                  /\ UNCHANGED timeout
             ELSE /\ timeout' = [timeout EXCEPT ![a] = @ - 1]
                  /\ IF wait_expired(timeout[a] - 1)
                     THEN Crash(a, "Exception", 0)
                     ELSE UNCHANGED <<pc, result, rs_config, tries, delay>>
    /\ UNCHANGED <<rs, faults, calls, state, member, replset, seen, reply, prev, assigned,
                   call>>

NextInitiate == \E a \in Agents :
            \/ StartInitiated(a)
            \/ IsMaster(a)
            \/ Initiate(a, AllFaults)
            \/ WaitPoll(a)

SpecInitiate == Init /\ [][NextInitiate]_vars

\* ------------------------------------------------------ specifications
Next == \E a \in Agents :
            \/ StartAlter(a)
            \/ GetConfig(a, AllFaults)
            \/ Reconfigure(a, AllFaults)

Spec == Init /\ [][Next]_vars

\* One agent alone with the cluster.
Solo == CHOOSE a \in Agents : TRUE

NextSolo ==
    \/ StartAlter(Solo)
    \/ GetConfig(Solo, AllFaults)
    \/ Reconfigure(Solo, AllFaults)

SpecSolo == Init /\ [][NextSolo]_vars

\* One agent, and a cluster whose only failures are the transient ones (at most
\* MaxFaults of them). An invocation under way takes its next step: the process
\* runs until it exits.
NextLive ==
    \/ StartAlter(Solo)
    \/ GetConfig(Solo, TransientFaults)
    \/ Reconfigure(Solo, TransientFaults)

SpecLive ==
    /\ Init
    /\ [][NextLive]_vars
    /\ WF_vars(GetConfig(Solo, TransientFaults))
    /\ WF_vars(Reconfigure(Solo, TransientFaults))

\* ---------------------------------------------------------------- claims
Wanted(a) == state[a] \in {"present", "absent"}

\* The configuration cfg already is what agent a asks for.
Satisfies(cfg, a) ==
    IF state[a] = "present" THEN member[a].host \in Hosts(cfg)
    ELSE member[a].host \notin Hosts(cfg)

Exited(a) == pc[a] = "done" /\ result[a].exit = "exit_json"

\* C1 as stated: of two consecutive calls of reconcile by one agent with the same
\* state and host, and nobody else touching the cluster, the first one, which
\* finds the change still to be made, returns changed = true and the second one
\* returns changed = false.
C1_Idempotent ==
    \A a \in Agents :
        (Exited(a) /\ Wanted(a)) =>
            /\ (seen[a] /= None /\ ~Satisfies(seen[a], a)) => result[a].changed = "true"
            /\ prev[a].result.changed = "true" => result[a].changed = "false"

\* C1 amended: the second call returns changed = false provided the cluster
\* applied the first call's submission; a first call whose submission was cut by
\* AutoReconnect and not applied returns true, and so does the second.
C1_IdempotentWhenApplied ==
    \A a \in Agents :
        (Exited(a) /\ Wanted(a)) =>
            /\ (seen[a] /= None /\ ~Satisfies(seen[a], a)) => result[a].changed = "true"
            /\ (prev[a].result.changed = "true" /\ prev[a].reply.applied)
                   => result[a].changed = "false"

C1_Witness ==
    \E a \in Agents :
        /\ Exited(a) /\ state[a] = "absent"
        /\ prev[a].result.changed = "true" /\ prev[a].reply.applied
        /\ result[a].changed = "false"

\* C2: an attempt that reads a configuration which already is what is asked for
\* (present and the host is a member, absent and it is not) ends the invocation
\* with changed = false, sends no replSetReconfig, and leaves the cluster's
\* configuration as it was.
C2_NoOp ==
    /\ [](\A a \in Agents :
            (Wanted(a) /\ seen[a] /= None /\ Satisfies(seen[a], a)) =>
                /\ Exited(a)
                /\ result[a].changed = "false"
                /\ reply[a] = NoReply)
    /\ [][\A a \in Agents :
            (pc[a] = "rs_alter" /\ pc'[a] = "done" /\ result'[a].changed = "false")
                => rs' = rs]_vars

C2_Witness ==
    \E a \in Agents :
        /\ Exited(a) /\ state[a] = "present" /\ result[a].changed = "false"
        /\ seen[a] = rs /\ member[a].host \in Hosts(rs)

\* The cluster answered agent a's replSetReconfig with a transient failure.
Rejected(a) ==
    /\ reply[a].op = "replSetReconfig"
    /\ reply[a].kind = "OperationFailure"
    /\ reply[a].code \in {NOT_PRIMARY_YET, NEWER_CONFIG_EXISTS}

Fatal(a) ==
    /\ reply[a].op \in {"find_one", "replSetReconfig"}
    /\ reply[a].kind = "OperationFailure"
    /\ reply[a].code \notin {NOT_PRIMARY_YET, NEWER_CONFIG_EXISTS}

\* C4: a failure whose code is neither 103 nor 109 ends the invocation at once
\* with an OperationError that carries the failure; no changed flag is reported.
C4_FatalIsOperationError ==
    \A a \in Agents :
        Fatal(a) =>
            /\ pc[a] = "done"
            /\ result[a].exit = "exception"
            /\ result[a].changed = "unreported"
            /\ result[a].error = "OperationError"
            /\ result[a].detail = reply[a].code

\* C5: the configuration the cluster holds changes only by accepting a
\* submission made from the configuration it holds at that moment, so the change
\* is that agent's one member added or removed and nothing another agent had
\* accepted is lost; an agent turned down for its version is back at the read.
C5_Serialized ==
    [][/\ rs' /= rs =>
            \E a \in Agents :
                /\ pc[a] = "rs_reconfigure" /\ rs' = rs_config[a] /\ seen[a] = rs
                /\ state[a] = "present" =>
                        Hosts(rs') = Hosts(rs) \cup {member[a].host}
                /\ state[a] = "absent" =>
                        Hosts(rs') = Hosts(rs) \ {member[a].host}
       /\ \A a \in Agents :
            (pc[a] = "rs_reconfigure" /\ reply'[a].code = NEWER_CONFIG_EXISTS)
                => (pc'[a] = "rs_alter" /\ tries'[a] = tries[a] + 1 /\ rs' = rs)
      ]_vars

\* Two agents added distinct hosts, one of them after being turned down for its
\* version, and the cluster holds both hosts.
C5_Witness ==
    \E a, b \in Agents :
        /\ a /= b /\ faults = 0
        /\ Exited(a) /\ Exited(b)
        /\ state[a] = "present" /\ state[b] = "present"
        /\ result[a].changed = "true" /\ result[b].changed = "true"
        /\ tries[a] > 0
        /\ member[a].host /= member[b].host
        /\ {member[a].host, member[b].host} \subseteq Hosts(rs)

\* C6: in the cluster's configuration no two members share a host, no two
\* share an id, and no id is negative.
C6_UniqueKeys ==
    rs /= None =>
        /\ \A i, j \in DOMAIN rs.members :
              i /= j => /\ rs.members[i].host /= rs.members[j].host
                        /\ rs.members[i]._id /= rs.members[j]._id
        /\ \A i \in DOMAIN rs.members : rs.members[i]._id >= 0

C6_Witness ==
    /\ rs /= None
    /\ Len(rs.members) = 3
    /\ \E a, b \in Agents :
          a /= b /\ result[a].changed = "true" /\ result[b].changed = "true"

\* C7 as stated: an id once given to a host is never given to another host.
C7_NeverReused ==
    \A p, q \in assigned : p[1] = q[1] => p[2] = q[2]

\* C7 amended: a member that stays keeps its id, and a member that enters gets
\* an id above the id of every member of the configuration it enters; the id of
\* a removed member is given again when no member left holds one as large.
C7_AboveCurrentIds ==
    [][(rs /= None /\ rs' /= None /\ rs' /= rs) =>
            \A p \in Pairs(rs') :
                \/ p \in Pairs(rs)
                \/ \A q \in Pairs(rs) : p[1] > q[1] /\ p[2] /= q[2]
      ]_vars

\* An id that two hosts have held.
C7_Witness ==
    \E p, q \in assigned : p[1] = q[1] /\ p[2] /= q[2]

\* C8: a replSetReconfig cut by AutoReconnect ends the invocation, with no
\* error and no further attempt, reporting changed = true, whether the cluster
\* applied the configuration or not.
C8_ReconnectSwallowed ==
    \A a \in Agents :
        (reply[a].op = "replSetReconfig" /\ reply[a].kind = "AutoReconnect") =>
            /\ Exited(a)
            /\ result[a].changed = "true"
            /\ result[a].error = ""

\* The cut submission was not applied, and changed = true is reported.
C8_Witness ==
    \E a \in Agents :
        /\ reply[a].op = "replSetReconfig" /\ reply[a].kind = "AutoReconnect"
        /\ ~reply[a].applied
        /\ result[a].changed = "true"
        /\ rs /= rs_config[a] /\ ~Satisfies(rs, a)

\* C9: on a cluster that reports a set name, state = initiated sends no
\* replSetInitiate, does not enter the waiter, changes nothing in the cluster
\* and exits with changed = false, whatever member and replset are given.
C9_InitiateNoOp ==
    [][\A a \in Agents :
            (pc[a] = "rs_is_master" /\ pc'[a] /= "rs_is_master" /\ rs /= None) =>
                /\ Exited(a)'
                /\ result'[a].changed = "false"
                /\ rs' = rs
                /\ reply'[a] = NoReply
                /\ polled'[a] = NoStatus /\ timeout'[a] = 0
      ]_vars

\* A member without a replset on an initiated cluster: no error, changed = false.
C9_Witness ==
    \E a \in Agents :
        /\ state[a] = "initiated" /\ Exited(a) /\ result[a].changed = "false"
        /\ member[a].host /= NoHost /\ replset[a] = NoReplset
        /\ rs /= None

\* C10: state = initiated enters the waiter only after its replSetInitiate was
\* accepted, reports changed = true only after the waiter saw ok = 1 and the
\* primary state, and a waiter that runs out of time ends the invocation with
\* an exception and no changed = true.
C10_SuccessAfterStabilization ==
    \A a \in Agents :
        state[a] = "initiated" =>
            /\ pc[a] = "rs_wait" =>
                  (reply[a] = [Ok EXCEPT !.op = "replSetInitiate"] /\ timeout[a] > 0)
            /\ result[a].changed = "true" =>
                  /\ reply[a] = [Ok EXCEPT !.op = "replSetInitiate"]
                  /\ polled[a] = [ok |-> 1, myState |-> 1]
                  /\ Exited(a)
            /\ (reply[a].kind = "ok" /\ timeout[a] = 0) =>
                  /\ pc[a] = "done"
                  /\ result[a].exit = "exception"
                  /\ result[a].changed /= "true"

\* The waiter saw the primary after polls that did not.
C10_Witness ==
    \E a \in Agents :
        /\ state[a] = "initiated" /\ Exited(a) /\ result[a].changed = "true"
        /\ timeout[a] < WAIT_TIMEOUT
        /\ rs = Initiated(rs_config[a])

\* C11: on a cluster that reports no set name, state = initiated with a member
\* and a replset sends replSetInitiate with a document that has exactly the
\* fields _id and members (no version, no settings), whose _id is the replset
\* and whose members are the one member of the given (normalized) host with
\* _id 0; with no member it sends replSetInitiate with no document.
C11_BootstrapShape ==
    \A a \in Agents :
        (pc[a] = "rs_initiate" \/ reply[a].op = "replSetInitiate") =>
            IF member[a].host = NoHost
            THEN rs_config[a] = None
            ELSE /\ replset[a] /= NoReplset
                 /\ DOMAIN rs_config[a] = {"_id", "members"}
                 /\ rs_config[a]._id = replset[a][1]
                 /\ Len(rs_config[a].members) = 1
                 /\ DOMAIN rs_config[a].members[1] = {"host", "_id"}
                 /\ rs_config[a].members[1].host = member[a].host
                 /\ rs_config[a].members[1]._id = 0

\* Both forms were sent and accepted: the document with the host given without
\* a port, and the bare command.
C11_Witness ==
    \E a, b \in Agents :
        /\ reply[a] = [Ok EXCEPT !.op = "replSetInitiate"]
        /\ rs_config[a] = [_id |-> "rs0", members |-> <<[host |-> <<"b", ":", "27017">>,
                                                          _id |-> 0]>>]
        /\ reply[b].op = "replSetInitiate"
        /\ rs_config[b] = None /\ member[b].host = NoHost

\* An invocation that lacks an input its state needs.
MissingInput(a) ==
    \/ Wanted(a) /\ member[a].host = NoHost
    \/ state[a] = "initiated" /\ member[a].host /= NoHost /\ replset[a] = NoReplset

\* C12 as stated: an invocation with state = present or absent and no member,
\* or with state = initiated, a member and no replset, sends neither
\* replSetInitiate nor replSetReconfig, is not retried, and ends with fail_json.
C12_ValidationFirst ==
    \A a \in Agents :
        MissingInput(a) =>
            /\ pc[a] \notin {"rs_reconfigure", "rs_initiate", "rs_wait"}
            /\ reply[a].op \notin {"replSetReconfig", "replSetInitiate"}
            /\ tries[a] = 0
            /\ pc[a] = "done" => result[a].exit = "fail_json"

\* ------------------------------------------------- the waiter on its own
\* rs_wait_for_ok_and_primary(client, timeout) called by every agent on an
\* initiated set, with any timeout from 1 to MaxWait.
InitWait ==
    /\ rs = Initiated(None)
    /\ faults = 0
    /\ calls = 0
    /\ pc = [a \in Agents |-> "rs_wait"]
    /\ state = [a \in Agents |-> "initiated"]
    /\ member = [a \in Agents |-> create_member(NoHost)]
    /\ replset = [a \in Agents |-> NoReplset]
    /\ tries = [a \in Agents |-> 0]
    /\ rs_config = [a \in Agents |-> None]
    /\ timeout \in [Agents -> 1..MaxWait]
    /\ result = [a \in Agents |-> Running]
    /\ delay = [a \in Agents |-> 0]
    /\ seen = [a \in Agents |-> None]
    /\ reply = [a \in Agents |-> [Ok EXCEPT !.op = "replSetInitiate"]]
    /\ polled = [a \in Agents |-> NoStatus]
    /\ prev = [a \in Agents |-> NoPrev]
    /\ assigned = Pairs(rs)
    /\ waited = [a \in Agents |-> [timeout |-> timeout[a], polls |-> 0]]
    /\ call = NoCall

NextWait == \E a \in Agents : WaitPoll(a)

SpecWait == InitWait /\ [][NextWait]_vars

\* C13: the waiter called with timeout T >= 1 returns (and main reports
\* changed = true) exactly when a poll answers ok = 1 and myState = 1; the
\* polls that did not are as many as the timeout has lost; at 0, which is
\* after T such polls, it has raised Exception, and only then; it never makes
\* more than T polls.
C13_WaiterOutcome ==
    \A a \in Agents :
        LET T == waited[a].timeout
            n == waited[a].polls
            success == polled[a].ok = 1 /\ polled[a].myState = 1
            failed == IF success THEN n - 1 ELSE n
        IN  T >= 1 =>
              /\ success <=> (Exited(a) /\ result[a].changed = "true")
              /\ timeout[a] = T - failed
              /\ timeout[a] = 0 <=>
                    (pc[a] = "done" /\ result[a].exit = "exception"
                                    /\ result[a].error = "Exception")
              /\ pc[a] = "rs_wait" => (~success /\ n < T)
              /\ n <= T

\* One waiter ran out of time at its last poll, another returned at a poll
\* that was not its first.
C13_Witness ==
    \E a, b \in Agents :
        /\ waited[a].timeout = 2 /\ waited[a].polls = 2
        /\ result[a].error = "Exception"
        /\ waited[b].polls = 2 /\ result[b].changed = "true"

\* C14 as stated: an invocation with state = present or absent reports
\* changed = true only after the waiter polled the cluster's status and saw a
\* primary.
C14_StabilizationAfterChange ==
    \A a \in Agents :
        (Wanted(a) /\ result[a].changed = "true") =>
            /\ waited[a].polls >= 1
            /\ polled[a] = [ok |-> 1, myState |-> 1]

\* C14 amended: the waiter runs after replSetInitiate only. An invocation with
\* state = present or absent never polls the cluster's status and never ends in
\* the waiter's Exception; it reports changed = true as soon as rs_reconfigure
\* returns, which it does on the cluster's ok and on AutoReconnect, and it
\* reports changed = true in no other case.
C14_NoStabilizationAfterChange ==
    \A a \in Agents :
        Wanted(a) =>
            /\ pc[a] /= "rs_wait"
            /\ waited[a] = NoWait /\ polled[a] = NoStatus /\ timeout[a] = 0
            /\ result[a].error /= "Exception"
            /\ (reply[a].op = "replSetReconfig"
                    /\ reply[a].kind \in {"ok", "AutoReconnect"})
                   <=> result[a].changed = "true"
            /\ result[a].changed = "true" => Exited(a)

\* changed = true was reported for an accepted submission, with no poll made.
C14_Witness ==
    \E a \in Agents :
        /\ Wanted(a) /\ Exited(a) /\ result[a].changed = "true"
        /\ reply[a] = [Ok EXCEPT !.op = "replSetReconfig"]
        /\ rs = rs_config[a]
        /\ waited[a].polls = 0

\* ------------------------------------------- the functions on their own
Pending(fn, args) == [fn |-> fn, args |-> args, ret |-> None, returned |-> FALSE]

\* Member lists of up to MaxMembers members; a host or an _id may repeat.
PureMembers == [host : {SelfHost, <<"b", ":", "27017">>}, _id : 0..MaxId]
PureMemberLists == UNION {[1..n -> PureMembers] : n \in 0..MaxMembers}
PureConfigs ==
    [_id : {SelfReplset}, version : 1..MaxVersion, members : PureMemberLists]
\* The documents rs_get_config may hand to rs_get_next_member_id: none, one
\* whose 'members' is None, or one with a member list.
ReadConfigs ==
    {None} \cup [_id : {SelfReplset}, version : 1..MaxVersion] \cup PureConfigs

\* The member rs_alter passes on: a host from the input, and an _id.
ArgMembers == [host : {<<"b", ":", "27017">>, <<"c", ":", "30000">>}, _id : 0..MaxId]

PureCalls ==
    {Pending("create_settings", <<kwargs>>) : kwargs \in SettingsInputs}
        \cup {Pending("rs_get_next_member_id", <<cfg>>) : cfg \in ReadConfigs}
        \cup {Pending(fn, <<cfg, m>>) :
                 fn \in {"rs_add_member", "rs_remove_member"},
                 cfg \in PureConfigs, m \in ArgMembers}

\* No invocation of main() runs; one function is called with any arguments.
InitPure ==
    /\ rs = None
    /\ faults = 0
    /\ calls = 0
    /\ pc = [a \in Agents |-> "idle"]
    /\ state = [a \in Agents |-> ""]
    /\ member = [a \in Agents |-> create_member(NoHost)]
    /\ replset = [a \in Agents |-> NoReplset]
    /\ tries = [a \in Agents |-> 0]
    /\ rs_config = [a \in Agents |-> None]
    /\ timeout = [a \in Agents |-> 0]
    /\ result = [a \in Agents |-> Running]
    /\ delay = [a \in Agents |-> 0]
    /\ seen = [a \in Agents |-> None]
    /\ reply = [a \in Agents |-> NoReply]
    /\ polled = [a \in Agents |-> NoStatus]
    /\ prev = [a \in Agents |-> NoPrev]
    /\ assigned = {}
    /\ waited = [a \in Agents |-> NoWait]
    /\ call \in PureCalls

Returns(fn, ret) ==
    /\ call.fn = fn /\ ~call.returned
    /\ call' = [call EXCEPT !.ret = ret, !.returned = TRUE]
    /\ UNCHANGED <<rs, faults, calls, pc, state, member, replset, tries, rs_config,
                   timeout, result, delay, seen, reply, polled, prev, assigned, waited>>

CallCreateSettings == Returns("create_settings", create_settings(call.args[1]))

CallNextMemberId == Returns("rs_get_next_member_id", rs_get_next_member_id(call.args[1]))

CallAddMember ==
    Returns("rs_add_member", rs_add_member(call.args[1], call.args[2]))

CallRemoveMember ==
    Returns("rs_remove_member", rs_remove_member(call.args[1], call.args[2]))

NextPure ==
    \/ CallCreateSettings
    \/ CallNextMemberId
    \/ CallAddMember
    \/ CallRemoveMember

SpecPure == InitPure /\ [][NextPure]_vars

\* C15 as stated: whatever create_settings is given, w of getLastErrorDefaults
\* is the given woption (as an integer where it parses as one), 1 when woption
\* is unset; j is the given joption, false when unset; heartbeat is 10 and
\* wtimeout is 0 when unset. w does not depend on joption.
C15_IndependentDefaults ==
    (call.fn = "create_settings" /\ call.returned) =>
        LET kwargs == call.args[1]
            g == call.ret.getLastErrorDefaults
        IN  /\ g.w = IF Truthy(kwargs.woption)
                     THEN int_or_same(kwargs.woption) ELSE PyInt(1)
            /\ "j" \in DOMAIN g
            /\ g.j = IF Truthy(kwargs.joption) THEN kwargs.joption ELSE PyBool(FALSE)
            /\ call.ret.heartbeat = IF Truthy(kwargs.heartbeat)
                                    THEN kwargs.heartbeat ELSE PyInt(HEARTBEAT_DEFAULT)
            /\ g.wtimeout = IF Truthy(kwargs.wtimeout) THEN kwargs.wtimeout ELSE PyInt(0)

\* The largest of a non-empty set of numbers.
Largest(S) == CHOOSE x \in S : \A y \in S : y <= x

\* C16 as stated: rs_get_next_member_id returns 0 for no document, for a
\* document whose members is None and for one whose member list is empty;
\* otherwise it returns 1 + the largest _id of the members.
C16_NextMemberId ==
    (call.fn = "rs_get_next_member_id" /\ call.returned) =>
        LET cfg == call.args[1]
        IN  IF cfg = None \/ "members" \notin DOMAIN cfg THEN call.ret = 0
            ELSE IF cfg.members = <<>> THEN call.ret = 0
            ELSE call.ret = 1 + Largest({cfg.members[i]._id : i \in DOMAIN cfg.members})

\* C16 amended: 0 is returned only for no document and for a document whose
\* members is None; a member list, empty or not, gives 1 + the largest of 0
\* and its _ids, which is 1 for the empty list.
C16_NextMemberIdOfList ==
    (call.fn = "rs_get_next_member_id" /\ call.returned) =>
        LET cfg == call.args[1]
        IN  IF cfg = None \/ "members" \notin DOMAIN cfg THEN call.ret = 0
            ELSE call.ret =
                     1 + Largest({0} \cup {cfg.members[i]._id : i \in DOMAIN cfg.members})

\* The empty member list gave 1.
C16_Witness ==
    /\ call.fn = "rs_get_next_member_id" /\ call.returned
    /\ call.args[1] /= None /\ "members" \in DOMAIN call.args[1]
    /\ call.args[1].members = <<>>
    /\ call.ret = 1

\* C17: the document rs_add_member or rs_remove_member returns has the version
\* of the document given plus 1, exactly; rs_remove_member given a host no
\* member has returns the member list as it was, and still the version plus 1.
C17_VersionPlusOne ==
    (call.fn \in {"rs_add_member", "rs_remove_member"} /\ call.returned) =>
        LET cfg == call.args[1]
            m == call.args[2]
        IN  /\ call.ret.version = cfg.version + 1
            /\ (call.fn = "rs_remove_member" /\ m.host \notin Hosts(cfg)) =>
                   call.ret.members = cfg.members

\* A removal that matched no member of a non-empty list.
C17_Witness ==
    /\ call.fn = "rs_remove_member" /\ call.returned
    /\ call.args[1].members /= <<>>
    /\ call.args[2].host \notin Hosts(call.args[1])
    /\ call.ret.members = call.args[1].members
    /\ call.ret.version = call.args[1].version + 1

\* C18: the document an attempt of rs_alter is about to submit is built from
\* the cluster's document as that attempt reads it: same _id, its version plus
\* 1, and its member list with the agent's member appended (present) or with
\* the one member of the agent's host taken out (absent). Nothing of an
\* earlier attempt enters it.
C18_FreshRead ==
    [][\A a \in Agents :
            (pc[a] = "rs_alter" /\ pc'[a] = "rs_reconfigure") =>
                /\ rs_config'[a]._id = rs._id
                /\ rs_config'[a].version = rs.version + 1
                /\ member'[a].host = member[a].host
                /\ IF state[a] = "present"
                   THEN rs_config'[a].members = Append(rs.members, member'[a])
                   ELSE \E i \in DOMAIN rs.members :
                           /\ rs.members[i].host = member[a].host
                           /\ rs_config'[a].members =
                                  SubSeq(rs.members, 1, i - 1)
                                      \o SubSeq(rs.members, i + 1, Len(rs.members))
      ]_vars

\* With no failure injected, an agent turned away with 103 by another agent's
\* accepted addition is about to submit a document that holds that agent's
\* member and its own.
C18_Witness ==
    \E a, b \in Agents :
        /\ a /= b /\ faults = 0
        /\ pc[a] = "rs_reconfigure" /\ tries[a] = 1 /\ state[a] = "present"
        /\ state[b] = "present" /\ result[b].changed = "true"
        /\ member[b].host /= member[a].host
        /\ member[b] \in Range(rs_config[a].members)
        /\ member[a] \in Range(rs_config[a].members)
        /\ rs_config[a].version = rs.version + 1

\* ------------------------------------- a cluster that keeps turning down
\* One invocation is left to start, on an initiated set.
InitRetry ==
    /\ rs = Initiated(None)
    /\ faults = 0
    /\ calls = MaxCalls - 1
    /\ pc = [a \in Agents |-> "idle"]
    /\ state = [a \in Agents |-> ""]
    /\ member = [a \in Agents |-> create_member(NoHost)]
    /\ replset = [a \in Agents |-> NoReplset]
    /\ tries = [a \in Agents |-> 0]
    /\ rs_config = [a \in Agents |-> None]
    /\ timeout = [a \in Agents |-> 0]
    /\ result = [a \in Agents |-> Running]
    /\ delay = [a \in Agents |-> 0]
    /\ seen = [a \in Agents |-> None]
    /\ reply = [a \in Agents |-> NoReply]
    /\ polled = [a \in Agents |-> NoStatus]
    /\ prev = [a \in Agents |-> NoPrev]
    /\ assigned = Pairs(rs)
    /\ waited = [a \in Agents |-> NoWait]
    /\ call = NoCall

\* rs_reconfigure against a cluster that has no primary, or whose configuration
\* others keep moving: every replSetReconfig is answered with 109 or 103.
ReconfigureRefused(a) ==
    /\ pc[a] = "rs_reconfigure"
    /\ \E f \in TransientFaults : Receive(a, f)
    /\ UNCHANGED <<faults, calls, state, member, replset, timeout, seen, polled, prev,
                   waited, call>>

NextRetry ==
    \/ StartAlter(Solo)
    \/ GetConfig(Solo, {})
    \/ ReconfigureRefused(Solo)

SpecRetry == InitRetry /\ [][NextRetry]_vars

\* The cluster answered agent a's last command with 103 or 109.
Transient(a) ==
    /\ reply[a].kind = "OperationFailure"
    /\ reply[a].code \in {NOT_PRIMARY_YET, NEWER_CONFIG_EXISTS}

\* C19 as stated: after a failure with 103 or 109 rs_alter is at its next
\* read, however many failures went before; and an invocation of rs_alter has
\* ended only by finding nothing to do, by a submission that returned, or by a
\* failure that is neither 103 nor 109.
C19_UnboundedRetry ==
    \A a \in Agents :
        /\ Transient(a) => pc[a] = "rs_alter"
        /\ (pc[a] = "done" /\ state[a] \in {"present", "absent", "reconf"}) =>
              \/ Exited(a) /\ result[a].changed \in {"false", "none"}
                           /\ reply[a] = NoReply
              \/ Exited(a) /\ result[a].changed = "true"
                           /\ reply[a].op = "replSetReconfig"
                           /\ reply[a].kind \in {"ok", "AutoReconnect"}
              \/ result[a].exit = "exception" /\ ~Transient(a)

====
